---- MODULE Spec2Model ----
(***************************************************************************)
(* The hash-chained ledger of CMP: LedgerEntry rows, canonicalize_payload, *)
(* compute_ledger_hash and append_ledger_entry (src/cmp/models.py), run in *)
(* SQLAlchemy sessions made by SessionLocal / session_scope / get_db       *)
(* (src/cmp/db.py) against the default SQLite store, and the recent-       *)
(* entries read of the dashboard handlers (src/cmp/routers/dashboard.py).  *)
(*                                                                         *)
(* Strings are TLA+ strings, joined with \o exactly as the f-string of     *)
(* compute_ledger_hash joins them.  SHA-256 is an injective wrapper around *)
(* its pre-image: digest collisions are outside the model.                 *)
(***************************************************************************)
EXTENDS Integers, Sequences, FiniteSets, TLC

\* ------------------------------------------------------------------ bounds
NSess == 2          \* sessions open at the same time
MaxEntries == 2     \* appends flushed in one run of concurrent callers
MaxSeqEntries == 3  \* appends flushed in one run of sequential callers
NCo == 2            \* coroutines calling RateLimiter.acquire
MaxTime == 4        \* seconds of time.time() the limiter is watched for
MaxCalls == 2       \* calls of _make_request on one client
MaxRetries == 2     \* largest retries argument of _make_request

Sessions == 1..NSess

\* ------------------------------------------------------- JSON-like values
\* Optional[dict[str, Any]]: None, or a dict kept in insertion order whose
\* values are ints or nested dicts.  One record shape for every value.
JNone == [kind |-> "none", n |-> 0, items |-> <<>>]
JInt(i) == [kind |-> "int", n |-> i, items |-> <<>>]
JDict(its) == [kind |-> "dict", n |-> 0, items |-> its]
KV(k, v) == [key |-> k, val |-> v]
\* a value json.dumps has no encoding for (a set, a datetime, an object)
JObj == [kind |-> "obj", n |-> 0, items |-> <<>>]

\* whether json.dumps(v) returns; it raises TypeError otherwise
RECURSIVE Serializable(_)
Serializable(v) ==
    /\ v.kind # "obj"
    /\ \A i \in 1..Len(v.items) : Serializable(v.items[i].val)

\* str(i) for the small integers the model uses
IntStr(i) == <<"0", "1", "2", "3", "4", "5", "6", "7", "8", "9", "10", "11", "12">>[i + 1]

\* Code-point order of the dict keys the model uses (Python compares str
\* keys by code point when sort_keys=True).
KeyOrder == <<"a", "amount", "b", "description", "file_size", "filename", "ocr_data", "v">>
KeyRank(k) == CHOOSE i \in 1..Len(KeyOrder) : KeyOrder[i] = k

RemoveAt(seq, i) == SubSeq(seq, 1, i - 1) \o SubSeq(seq, i + 1, Len(seq))

\* a bug: json.dumps without sort_keys, the items in insertion order
SortByKey_unsorted(its) == its

\* sorted(dct.items()) of json.dumps(..., sort_keys=True)
RECURSIVE SortByKey(_)
SortByKey(its) ==
    IF its = <<>> THEN <<>>
    ELSE LET i == CHOOSE i \in 1..Len(its) :
                    \A j \in 1..Len(its) : KeyRank(its[i].key) <= KeyRank(its[j].key)
         IN <<its[i]>> \o SortByKey(RemoveAt(its, i))

\* json.dumps(v, sort_keys=True, separators=(",", ":"))
RECURSIVE JsonDumps(_)
RECURSIVE JoinItems(_)
JoinItems(its) ==
    IF its = <<>> THEN ""
    ELSE "\"" \o its[1].key \o "\":" \o JsonDumps(its[1].val)
         \o (IF Len(its) > 1 THEN "," \o JoinItems(Tail(its)) ELSE "")
JsonDumps(v) ==
    CASE v.kind = "none" -> "null"
      [] v.kind = "int" -> IntStr(v.n)
      [] v.kind = "dict" -> "{" \o JoinItems(SortByKey(v.items)) \o "}"

\* a bug: "payload or {}", no payload serialized as the empty mapping
canonicalize_payload_falsy(payload) ==
    JsonDumps(IF payload = JNone THEN JDict(<<>>) ELSE payload)

canonicalize_payload(payload) ==
    IF payload = JNone THEN "null" ELSE JsonDumps(payload)

\* ---------------------------------------------------------------- hashing
GENESIS == "GENESIS"

\* datetime: an instant and whether the object carries tzinfo (UTC)
Aware(t) == [t |-> t, aware |-> TRUE]
IsoFormat(ts) == "T" \o IntStr(ts.t) \o (IF ts.aware THEN "+00:00" ELSE "")

\* hashlib.sha256(raw).hexdigest(), injective in raw
Sha256Hex(raw) == "sha256(" \o raw \o ")"

\* the f-string of compute_ledger_hash, before .encode()
RawPreimage(prev_hash, timestamp, actor, action, payload) ==
    prev_hash \o "|" \o IsoFormat(timestamp) \o "|" \o actor \o "|" \o action
        \o "|" \o canonicalize_payload(payload)

compute_ledger_hash(prev_hash, timestamp, actor, action, payload) ==
    Sha256Hex(RawPreimage(prev_hash, timestamp, actor, action, payload))

\* ------------------------------------------------------------------ state
VARIABLES
    committed,   \* rows of ledger_entries durably committed, in id order
    pc,          \* per session: "closed", "open", "append" (tail read done)
    pending,     \* per session: entries flushed in its open transaction
    owned,       \* per session: entry objects it created (identity map)
    lastHash,    \* per session: local last_hash of the append in progress
    callArgs,    \* per session: arguments of the append in progress
    result,      \* per session: entries its last recent-entries read returned
    writeLock,   \* session holding SQLite's write lock, 0 when free
    clock,       \* dt.datetime.now
    nFlushed,    \* appends that flushed an entry
    nDiscarded,  \* flushed entries removed by rollback or close
    tampered,    \* index of the stored row edited behind the program, or 0
    verdict,     \* outcome of the last verify_chain over the stored ledger
    pureIn,      \* arguments handed to the pure functions
    pureOut,     \* what the pure functions returned for pureIn
    tz,          \* local time of the server minus UTC, in half seconds
    limiter,     \* RateLimiter: max_requests, time_window, requests
    time,        \* time.time(), in seconds
    co,          \* per coroutine: where it is in acquire()
    acquired,    \* the times at which calls of acquire() returned
    call,        \* the _make_request in progress on the client
    users,       \* rows of the users table, in id order
    req,         \* per session: the HTTP request that get_db made it for
    exc          \* per session: the exception its last call raised, "" for none

ledgerVars == <<committed, pc, pending, owned, lastHash, callArgs, result,
                writeLock, clock, nFlushed, nDiscarded>>
apiVars == <<limiter, time, co, acquired, call>>
otherVars == <<tampered, verdict, pureIn, pureOut, tz, apiVars>>
reqVars == <<users, req, exc>>
vars == <<committed, pc, pending, owned, lastHash, callArgs, result,
          writeLock, clock, nFlushed, nDiscarded, tampered, verdict, pureIn,
          pureOut, tz, limiter, time, co, acquired, call, users, req, exc>>

\* the (actor, action, data) triples callers pass
Payload1 == JDict(<<KV("v", JInt(1))>>)
CallArgs ==
    { [actor |-> "AI:Accountant", action |-> "t1", data |-> Payload1],
      [actor |-> "User:a@x", action |-> "real_world_event", data |-> JNone] }
NoArgs == [actor |-> "", action |-> "", data |-> JNone]

NoPure == [done |-> FALSE]

\* UserRole
ADMIN == "admin"
ORCHESTRATOR == "orchestrator"
VIEWER == "viewer"
UserRole == {ADMIN, ORCHESTRATOR, VIEWER}

\* pwd_context.hash and pwd_context.verify
hash_password(password) == "hash(" \o password \o ")"
verify_password(plain_password, hashed_password) ==
    hash_password(plain_password) = hashed_password

\* the password a seeded user was given
SeedPassword(email) == "pw-" \o email

\* a row of the users table; last_login is 0 for NULL
User(id, email, role, is_active) ==
    [id |-> id, email |-> email, role |-> role, is_active |-> is_active,
     hashed_password |-> hash_password(SeedPassword(email)), last_login |-> 0]

\* the users the deployment starts with: one of each role, and an
\* orchestrator whose account was deactivated
SeedUsers ==
    <<User(1, "admin@x", ADMIN, TRUE),
      User(2, "orch@x", ORCHESTRATOR, TRUE),
      User(3, "viewer@x", VIEWER, TRUE),
      User(4, "gone@x", ORCHESTRATOR, FALSE)>>

\* role_hierarchy of User.has_permission
role_hierarchy == [r \in UserRole |->
    CASE r = VIEWER -> 1 [] r = ORCHESTRATOR -> 2 [] r = ADMIN -> 3]

\* a bug: the comparison is strict
has_permission_strict(role, required_role) ==
    role_hierarchy[role] > role_hierarchy[required_role]

\* User.has_permission
has_permission(role, required_role) ==
    role_hierarchy[role] >= role_hierarchy[required_role]

NoUser == User(0, "", VIEWER, FALSE)
NoToken ==
    [sub |-> "", type |-> "", signed |-> FALSE, expired |-> FALSE, stale |-> FALSE]
NoReq ==
    [handler |-> "", token |-> NoToken, arg |-> "", actor |-> "", password |-> "",
     role |-> VIEWER, user_id |-> 0, stage |-> "none", user |-> NoUser,
     status |-> 0, detail |-> "", doomed |-> <<>>]
NoVerdict == [ran |-> FALSE, len |-> 0, brk |-> 0]

InitLedger ==
    /\ committed = <<>>
    /\ pc = [s \in Sessions |-> "closed"]
    /\ pending = [s \in Sessions |-> <<>>]
    /\ owned = [s \in Sessions |-> <<>>]
    /\ lastHash = [s \in Sessions |-> GENESIS]
    /\ callArgs = [s \in Sessions |-> NoArgs]
    /\ result = [s \in Sessions |-> <<>>]
    /\ writeLock = 0
    /\ clock = 1
    /\ nFlushed = 0
    /\ nDiscarded = 0
    /\ tampered = 0
    /\ verdict = NoVerdict
    /\ users = SeedUsers
    /\ req = [s \in Sessions |-> NoReq]
    /\ exc = [s \in Sessions |-> ""]

\* RateLimiter(max_requests, time_window) as __init__ leaves it
RateLimiter(max_requests, time_window) ==
    [max_requests |-> max_requests, time_window |-> time_window, requests |-> <<>>]

Coroutines == 1..NCo
Idle == [pc |-> "idle", now |-> 0, wake |-> 0]
NoCall ==
    [stage |-> "none", retries |-> 0, attempt |-> 0, sent |-> 0, outcome |-> "",
     status |-> 0, message |-> "", last |-> "", slept |-> 0, n |-> 0]

\* no client is in use
NoApi ==
    /\ limiter = RateLimiter(1, 1)
    /\ time = 0
    /\ co = [c \in Coroutines |-> Idle]
    /\ acquired = <<>>
    /\ call = NoCall

Init ==
    /\ InitLedger
    /\ NoApi
    /\ tz = 0
    /\ pureIn = NoPure
    /\ pureOut = NoPure

\* --------------------------------------------------------------- the store
RecentLimit == 5

\* What the ledger_entries table keeps of an entry: SQLite has no
\* time-zone-aware DATETIME, so DateTime(timezone=True) stores the wall
\* time only and a row loads with a naive datetime.  The JSON column
\* keeps the payload as json.dumps wrote it.
StoreRow(e) == [e EXCEPT !.timestamp = [t |-> e.timestamp.t, aware |-> FALSE]]

\* The object a session gets for a committed row: its own object when the
\* identity map holds one for that primary key, else one loaded from the row.
ObjectOf(s, row) ==
    IF \E i \in 1..Len(owned[s]) : owned[s][i].id = row.id
    THEN owned[s][CHOOSE i \in 1..Len(owned[s]) : owned[s][i].id = row.id]
    ELSE row

\* select(LedgerEntry).order_by(LedgerEntry.id) as session s sees it: the
\* committed rows, then the rows flushed in its own transaction.
VisibleRows(s) ==
    [i \in 1..Len(committed) |-> ObjectOf(s, committed[i])] \o pending[s]

Reverse(seq) == [i \in 1..Len(seq) |-> seq[Len(seq) + 1 - i]]

\* select(LedgerEntry).order_by(LedgerEntry.id.desc()).limit(n)
SelectDescLimit(s, n) ==
    LET r == Reverse(VisibleRows(s))
    IN SubSeq(r, 1, IF Len(r) < n THEN Len(r) ELSE n)

\* a bug: the tail read misses the rows flushed in the session's transaction
TailHash_committed_only(s) ==
    IF committed = <<>> THEN GENESIS ELSE committed[Len(committed)].hash

\* last_hash of append_ledger_entry
TailHash(s) ==
    LET last == SelectDescLimit(s, 1)
    IN IF last = <<>> THEN GENESIS ELSE last[1].hash

MaxId(rows) ==
    IF rows = <<>> THEN 0
    ELSE CHOOSE m \in {rows[i].id : i \in 1..Len(rows)} :
            \A i \in 1..Len(rows) : rows[i].id <= m

\* a bug: the id is taken from the committed rows alone
NextRowId_committed_only(s) == MaxId(committed) + 1

\* INTEGER PRIMARY KEY of SQLite: one more than the largest rowid the
\* writing transaction sees.
NextRowId(s) == MaxId(VisibleRows(s)) + 1

\* a bug: writers not serialized, an INSERT never waits
CanWrite_unlocked(s) == TRUE

\* SQLite admits one writing transaction; an INSERT waits for the lock.
CanWrite(s) == writeLock \in {0, s}

InFlight == Cardinality({t \in Sessions : pc[t] = "append"})

\* ---------------------------------------------------------------- actions
\* SessionLocal(): the new session takes the lowest free slot
OpenSession(s) ==
    /\ pc[s] = "closed"
    /\ \A t \in Sessions : t < s => pc[t] # "closed"
    /\ pc' = [pc EXCEPT ![s] = "open"]
    /\ result' = [result EXCEPT ![s] = <<>>]
    /\ UNCHANGED <<committed, pending, owned, lastHash, callArgs, writeLock,
                   clock, nFlushed, nDiscarded>>
    /\ UNCHANGED otherVars

\* a bug: the tail query finds no row, every entry starts a chain
append_read_tail_empty(s, a, cap) ==
    /\ pc[s] = "open"
    /\ nFlushed + InFlight < cap
    /\ pc' = [pc EXCEPT ![s] = "append"]
    /\ lastHash' = [lastHash EXCEPT ![s] = GENESIS]
    /\ callArgs' = [callArgs EXCEPT ![s] = a]
    /\ UNCHANGED <<committed, pending, owned, result, writeLock, clock,
                   nFlushed, nDiscarded>>
    /\ UNCHANGED otherVars

\* append_ledger_entry, first half: read the tail
append_read_tail(s, a, cap) ==
    /\ pc[s] = "open"
    /\ nFlushed + InFlight < cap
    /\ pc' = [pc EXCEPT ![s] = "append"]
    /\ lastHash' = [lastHash EXCEPT ![s] = TailHash(s)]
    /\ callArgs' = [callArgs EXCEPT ![s] = a]
    /\ UNCHANGED <<committed, pending, owned, result, writeLock, clock,
                   nFlushed, nDiscarded>>
    /\ UNCHANGED otherVars

\* the LedgerEntry that append_ledger_entry builds
NewEntry(s, now) ==
    [id |-> NextRowId(s),
     timestamp |-> now,
     actor |-> callArgs[s].actor,
     action |-> callArgs[s].action,
     data |-> callArgs[s].data,
     prev_hash |-> lastHash[s],
     hash |-> compute_ledger_hash(lastHash[s], now, callArgs[s].actor,
                                  callArgs[s].action, callArgs[s].data)]

\* append_ledger_entry, second half: build the entry, add, flush, return
append_flush(s) ==
    /\ pc[s] = "append"
    /\ Serializable(callArgs[s].data)
    /\ CanWrite(s)
    /\ LET entry == NewEntry(s, Aware(clock))
       IN /\ pending' = [pending EXCEPT ![s] = Append(@, entry)]
          /\ owned' = [owned EXCEPT ![s] = Append(@, entry)]
    /\ writeLock' = s
    /\ clock' = clock + 1
    /\ nFlushed' = nFlushed + 1
    /\ pc' = [pc EXCEPT ![s] = "open"]
    /\ callArgs' = [callArgs EXCEPT ![s] = NoArgs]
    /\ UNCHANGED <<committed, lastHash, result, nDiscarded>>
    /\ UNCHANGED otherVars

\* append_ledger_entry, second half, when compute_ledger_hash raises: the
\* TypeError of json.dumps leaves the call after the tail read, before
\* session.add
append_raise(s) ==
    /\ pc[s] = "append"
    /\ ~Serializable(callArgs[s].data)
    /\ pc' = [pc EXCEPT ![s] = "open"]
    /\ callArgs' = [callArgs EXCEPT ![s] = NoArgs]
    /\ exc' = [exc EXCEPT ![s] = "TypeError"]
    /\ UNCHANGED <<committed, pending, owned, lastHash, result, writeLock,
                   clock, nFlushed, nDiscarded, users, req>>
    /\ UNCHANGED otherVars

\* the recent-entries read of dashboard_page / realworld_input / upload_invoice
ReadRecent(s) ==
    /\ pc[s] = "open"
    /\ result' = [result EXCEPT ![s] = SelectDescLimit(s, RecentLimit)]
    /\ UNCHANGED <<committed, pc, pending, owned, lastHash, callArgs,
                   writeLock, clock, nFlushed, nDiscarded>>
    /\ UNCHANGED otherVars

\* a bug: the transaction is ended without its rows being written
Commit_discards(s) ==
    /\ pc[s] = "open"
    /\ pending[s] # <<>>
    /\ pending' = [pending EXCEPT ![s] = <<>>]
    /\ writeLock' = 0
    /\ UNCHANGED <<committed, pc, owned, lastHash, callArgs, result, clock,
                   nFlushed, nDiscarded>>
    /\ UNCHANGED otherVars

\* a bug: the flushed rows are written over the last committed row
Commit_replaces_tail(s) ==
    /\ pc[s] = "open"
    /\ pending[s] # <<>>
    /\ committed' = SubSeq(committed, 1, Len(committed) - 1)
                        \o [i \in 1..Len(pending[s]) |-> StoreRow(pending[s][i])]
    /\ pending' = [pending EXCEPT ![s] = <<>>]
    /\ writeLock' = 0
    /\ UNCHANGED <<pc, owned, lastHash, callArgs, result, clock, nFlushed,
                   nDiscarded>>
    /\ UNCHANGED otherVars

\* session.commit()
Commit(s) ==
    /\ pc[s] = "open"
    /\ pending[s] # <<>>
    /\ committed' = committed \o [i \in 1..Len(pending[s]) |-> StoreRow(pending[s][i])]
    /\ pending' = [pending EXCEPT ![s] = <<>>]
    /\ writeLock' = 0
    /\ UNCHANGED <<pc, owned, lastHash, callArgs, result, clock, nFlushed,
                   nDiscarded>>
    /\ UNCHANGED otherVars

\* a bug: the rows flushed in the transaction stay in the table
Rollback_keeps_rows(s) ==
    /\ pc[s] = "open"
    /\ pending[s] # <<>>
    /\ committed' = committed \o [i \in 1..Len(pending[s]) |-> StoreRow(pending[s][i])]
    /\ pending' = [pending EXCEPT ![s] = <<>>]
    /\ owned' = [owned EXCEPT ![s] = SubSeq(@, 1, Len(@) - Len(pending[s]))]
    /\ writeLock' = 0
    /\ nDiscarded' = nDiscarded + Len(pending[s])
    /\ UNCHANGED <<pc, lastHash, callArgs, result, clock, nFlushed>>
    /\ UNCHANGED otherVars

\* session.rollback(): the flushed entries are dropped and expunged
Rollback(s) ==
    /\ pc[s] = "open"
    /\ pending[s] # <<>>
    /\ pending' = [pending EXCEPT ![s] = <<>>]
    /\ owned' = [owned EXCEPT ![s] = SubSeq(@, 1, Len(@) - Len(pending[s]))]
    /\ writeLock' = 0
    /\ nDiscarded' = nDiscarded + Len(pending[s])
    /\ UNCHANGED <<committed, pc, lastHash, callArgs, result, clock, nFlushed>>
    /\ UNCHANGED otherVars

\* session.close(): an open transaction is rolled back, the identity map cleared
Close(s) ==
    /\ pc[s] = "open"
    /\ pc' = [pc EXCEPT ![s] = "closed"]
    /\ pending' = [pending EXCEPT ![s] = <<>>]
    /\ owned' = [owned EXCEPT ![s] = <<>>]
    /\ result' = [result EXCEPT ![s] = <<>>]
    /\ writeLock' = IF writeLock = s THEN 0 ELSE writeLock
    /\ nDiscarded' = nDiscarded + Len(pending[s])
    /\ UNCHANGED <<committed, lastHash, callArgs, clock, nFlushed>>
    /\ UNCHANGED otherVars

\* Concurrent callers: the calls of the sessions interleave freely.
Next ==
    \E s \in Sessions :
        \/ OpenSession(s) /\ UNCHANGED reqVars
        \/ (\E a \in CallArgs : append_read_tail(s, a, MaxEntries)) /\ UNCHANGED reqVars
        \/ append_flush(s) /\ UNCHANGED reqVars
        \/ ReadRecent(s) /\ UNCHANGED reqVars
        \/ Commit(s) /\ UNCHANGED reqVars
        \/ Rollback(s) /\ UNCHANGED reqVars
        \/ Close(s) /\ UNCHANGED reqVars

Spec == Init /\ [][Next]_vars

\* Sequential appenders: no call of one session runs while another session
\* is inside append_ledger_entry.
NoOtherAppend(s) == \A t \in Sessions \ {s} : pc[t] # "append"

NextSeq ==
    \E s \in Sessions :
        \/ NoOtherAppend(s) /\ OpenSession(s) /\ UNCHANGED reqVars
        \/ NoOtherAppend(s) /\ (\E a \in CallArgs : append_read_tail(s, a, MaxSeqEntries))
               /\ UNCHANGED reqVars
        \/ NoOtherAppend(s) /\ append_flush(s) /\ UNCHANGED reqVars
        \/ NoOtherAppend(s) /\ Commit(s) /\ UNCHANGED reqVars
        \/ NoOtherAppend(s) /\ Rollback(s) /\ UNCHANGED reqVars
        \/ NoOtherAppend(s) /\ Close(s) /\ UNCHANGED reqVars

SpecSeq == Init /\ [][NextSeq]_vars

\* Callers that pass whatever the signature of append_ledger_entry admits:
\* an empty actor, an empty action, a payload json.dumps cannot encode, at
\* the top or nested.
AnyCallArgs ==
    CallArgs
    \cup { [actor |-> "", action |-> "t1", data |-> JNone],
           [actor |-> "AI:Accountant", action |-> "", data |-> JNone],
           [actor |-> "AI:Accountant", action |-> "t1", data |-> JDict(<<KV("v", JObj)>>)] }

NextArgs ==
    \E s \in Sessions :
        \/ NoOtherAppend(s) /\ OpenSession(s) /\ UNCHANGED reqVars
        \/ NoOtherAppend(s)
               /\ (\E a \in AnyCallArgs : append_read_tail(s, a, MaxEntries))
               /\ exc' = [exc EXCEPT ![s] = ""] /\ UNCHANGED <<users, req>>
        \/ NoOtherAppend(s) /\ append_flush(s) /\ UNCHANGED reqVars
        \/ NoOtherAppend(s) /\ append_raise(s)
        \/ NoOtherAppend(s) /\ Commit(s) /\ UNCHANGED reqVars
        \/ NoOtherAppend(s) /\ Rollback(s) /\ UNCHANGED reqVars
        \/ NoOtherAppend(s) /\ Close(s) /\ UNCHANGED reqVars

SpecArgs == Init /\ [][NextArgs]_vars

\* ------------------------------------------------- the pure functions alone
\* Payloads handed to canonicalize_payload: dicts over the keys "a" and "b"
\* in either insertion order, with int values or nested dicts.
DictsOver(vals) ==
    {JDict(<<>>)}
    \cup {JDict(<<KV(k, v)>>) : k \in {"a", "b"}, v \in vals}
    \cup {JDict(<<KV("a", v), KV("b", w)>>) : v \in vals, w \in vals}
    \cup {JDict(<<KV("b", w), KV("a", v)>>) : v \in vals, w \in vals}

PureLeaves == {JInt(1), JInt(2)}
PureInner ==
    {JDict(<<>>), JDict(<<KV("a", JInt(1)), KV("b", JInt(2))>>),
     JDict(<<KV("b", JInt(2)), KV("a", JInt(1))>>)}
PureDicts == DictsOver(PureLeaves \cup PureInner)
PurePayloads == {JNone} \cup PureDicts

Fields(p, t, ac, an, d) ==
    [prev_hash |-> p, timestamp |-> t, actor |-> ac, action |-> an, data |-> d]

\* argument tuples of compute_ledger_hash; actor and action may hold "|"
HashArgs ==
    {Fields(p, t, ac, an, d) :
        p \in {GENESIS, Sha256Hex("x")},
        t \in {Aware(1), Aware(2)},
        ac \in {"a", "a|b", "b"},
        an \in {"c", "b|c", "c|d"},
        d \in {JNone, JDict(<<>>), Payload1}}

\* argument tuples that differ in the payload only
CanonArgs == {Fields(GENESIS, Aware(1), "a", "c", d) : d \in PurePayloads}

InitPure ==
    /\ InitLedger
    /\ NoApi
    /\ tz = 0
    /\ \/ \E x \in HashArgs : \E y \in HashArgs :
             pureIn = [done |-> TRUE, x |-> x, y |-> y]
       \/ \E x \in CanonArgs : \E y \in CanonArgs :
             pureIn = [done |-> TRUE, x |-> x, y |-> y]
       \/ \E role \in UserRole : \E required \in UserRole :
             pureIn = [done |-> TRUE, x |-> Fields(GENESIS, Aware(1), "a", "c", JNone),
                       y |-> Fields(GENESIS, Aware(1), "a", "c", JNone),
                       role |-> role, required_role |-> required]
    /\ pureOut = [canon |-> <<>>, raw |-> <<>>, hash |-> <<>>, perm |-> <<>>]

\* canonicalize_payload called on the two payloads
PureCanonicalize ==
    /\ pureOut.canon = <<>>
    /\ pureOut' = [pureOut EXCEPT !.canon = <<canonicalize_payload(pureIn.x.data),
                                              canonicalize_payload(pureIn.y.data)>>]
    /\ UNCHANGED <<ledgerVars, tampered, verdict, pureIn, tz, apiVars>>

RawOf(f) == RawPreimage(f.prev_hash, f.timestamp, f.actor, f.action, f.data)
HashOf(f) == compute_ledger_hash(f.prev_hash, f.timestamp, f.actor, f.action, f.data)

\* compute_ledger_hash called on the two argument tuples
PureComputeHash ==
    /\ pureOut.hash = <<>>
    /\ pureOut' = [pureOut EXCEPT !.raw = <<RawOf(pureIn.x), RawOf(pureIn.y)>>,
                                  !.hash = <<HashOf(pureIn.x), HashOf(pureIn.y)>>]
    /\ UNCHANGED <<ledgerVars, tampered, verdict, pureIn, tz, apiVars>>

\* User(role=...).has_permission(required_role) called
PureHasPermission ==
    /\ "role" \in DOMAIN pureIn
    /\ pureOut.perm = <<>>
    /\ pureOut' = [pureOut EXCEPT !.perm = <<has_permission(pureIn.role, pureIn.required_role)>>]
    /\ UNCHANGED <<ledgerVars, tampered, verdict, pureIn, tz, apiVars>>

NextPure ==
    \/ PureCanonicalize /\ UNCHANGED reqVars
    \/ PureComputeHash /\ UNCHANGED reqVars
    \/ PureHasPermission /\ UNCHANGED reqVars

SpecPure == InitPure /\ [][NextPure]_vars

\* ------------------------------------------------------------ the audit
\* verify_chain: whether entry i of the list fails one of its two checks
BrokenAt(entries, i) ==
    LET prev == IF i = 1 THEN GENESIS ELSE entries[i - 1].hash
        e == entries[i]
    IN \/ compute_ledger_hash(prev, e.timestamp, e.actor, e.action, e.data) # e.hash
       \/ e.prev_hash # prev

\* verify_chain: the index of the first broken entry, 0 for an intact chain
verify_chain(entries) ==
    IF \E i \in 1..Len(entries) : BrokenAt(entries, i)
    THEN CHOOSE i \in 1..Len(entries) :
            /\ BrokenAt(entries, i)
            /\ \A j \in 1..(i - 1) : ~BrokenAt(entries, j)
    ELSE 0

\* read_all_in_order
read_all_in_order(s) == VisibleRows(s)

\* an auditor's session, which appended nothing itself, reads the stored
\* ledger and verifies it
Audit(s) ==
    /\ pc[s] = "open"
    /\ owned[s] = <<>>
    /\ LET chain == read_all_in_order(s)
       IN verdict' = [ran |-> TRUE, len |-> Len(chain), brk |-> verify_chain(chain)]
    /\ UNCHANGED <<ledgerVars, tampered, pureIn, pureOut, tz, apiVars>>

TamperFields == {"timestamp", "actor", "action", "data", "prev_hash", "hash"}

TamperedRow(r, f) ==
    CASE f = "timestamp" -> [r EXCEPT !.timestamp = [t |-> 0, aware |-> FALSE]]
      [] f = "actor" -> [r EXCEPT !.actor = "Mallory"]
      [] f = "action" -> [r EXCEPT !.action = "x"]
      [] f = "data" -> [r EXCEPT !.data = JDict(<<KV("v", JInt(9))>>)]
      [] f = "prev_hash" -> [r EXCEPT !.prev_hash = "0000"]
      [] f = "hash" -> [r EXCEPT !.hash = "ffff"]

\* one field of the stored row k is changed directly in storage
Tamper(k, f) ==
    /\ tampered = 0
    /\ Len(committed) >= 2
    /\ k \in 1..Len(committed)
    /\ committed' = [committed EXCEPT ![k] = TamperedRow(@, f)]
    /\ tampered' = k
    /\ verdict' = NoVerdict
    /\ UNCHANGED <<pc, pending, owned, lastHash, callArgs, result, writeLock,
                   clock, nFlushed, nDiscarded, pureIn, pureOut, tz, apiVars>>

\* sequential appenders, an auditor, and one edit behind the program
NextAudit ==
    \/ \E s \in Sessions :
        \/ NoOtherAppend(s) /\ OpenSession(s) /\ UNCHANGED reqVars
        \/ NoOtherAppend(s) /\ (\E a \in CallArgs : append_read_tail(s, a, MaxEntries))
               /\ UNCHANGED reqVars
        \/ NoOtherAppend(s) /\ append_flush(s) /\ UNCHANGED reqVars
        \/ NoOtherAppend(s) /\ Commit(s) /\ UNCHANGED reqVars
        \/ NoOtherAppend(s) /\ Close(s) /\ UNCHANGED reqVars
        \/ NoOtherAppend(s) /\ Audit(s) /\ UNCHANGED reqVars
    \/ (\E k \in 1..MaxEntries : \E f \in TamperFields : Tamper(k, f)) /\ UNCHANGED reqVars

SpecAudit == Init /\ [][NextAudit]_vars

\* ------------------------------------------------- users and access tokens
\* create_access_token / create_refresh_token for user id, as presented to
\* verify_token: the claims that matter to it, whether the signature holds,
\* whether jwt.decode finds the exp claim elapsed (expired), and whether
\* verify_token's own comparison of utcnow() with fromtimestamp(exp) does
\* (stale)
AccessToken(id) ==
    [sub |-> IntStr(id), type |-> "access", signed |-> TRUE, expired |-> FALSE,
     stale |-> FALSE]
RefreshToken(id) == [AccessToken(id) EXCEPT !.type = "refresh"]

\* what clients send as bearer credentials: the access token of each user,
\* of a user id that is in no row, a refresh token, a token signed with
\* another key, an expired token, and no Authorization header at all
Tokens ==
    {AccessToken(i) : i \in 1..5}
    \cup {RefreshToken(2),
          [AccessToken(1) EXCEPT !.signed = FALSE],
          [AccessToken(2) EXCEPT !.expired = TRUE],
          NoToken}

\* verify_token: "" when the payload is returned, else the message of the
\* AuthenticationError
verify_token(token, token_type) ==
    IF ~token.signed \/ token.expired THEN "Invalid token"
    ELSE IF token.type # token_type THEN "Invalid token type"
    ELSE IF token.stale THEN "Token has expired"
    ELSE ""

\* get_user_by_id
get_user_by_id(id) ==
    IF \E i \in 1..Len(users) : users[i].id = id
    THEN users[CHOOSE i \in 1..Len(users) : users[i].id = id]
    ELSE NoUser

\* int(user_id)
StrInt(str) == CHOOSE i \in 0..12 : IntStr(i) = str

\* a bug: an inactive user is let through
get_current_user_from_token_inactive(token) ==
    LET err == verify_token(token, "access")
        user == get_user_by_id(StrInt(token.sub))
    IN IF err # "" THEN [err |-> err, user |-> NoUser]
       ELSE IF user = NoUser THEN [err |-> "User not found", user |-> NoUser]
       ELSE [err |-> "", user |-> user]

\* get_current_user_from_token: the user, or the AuthenticationError
get_current_user_from_token(token) ==
    LET err == verify_token(token, "access")
        user == get_user_by_id(StrInt(token.sub))
    IN IF err # "" THEN [err |-> err, user |-> NoUser]
       ELSE IF user = NoUser THEN [err |-> "User not found", user |-> NoUser]
       ELSE IF ~user.is_active THEN [err |-> "User is inactive", user |-> NoUser]
       ELSE [err |-> "", user |-> user]

\* ------------------------------------------------ the lifetime of a token
\* Time is counted in half seconds since the epoch, in UTC.
ACCESS_TOKEN_EXPIRE_MINUTES == 30
REFRESH_TOKEN_EXPIRE_DAYS == 7
HalfSeconds(seconds) == seconds + seconds
AccessLifetime == HalfSeconds(ACCESS_TOKEN_EXPIRE_MINUTES * 60)
RefreshLifetime == HalfSeconds(REFRESH_TOKEN_EXPIRE_DAYS * 24 * 60 * 60)

\* timegm(d.utctimetuple()): the whole seconds of a datetime
WholeSeconds(d) == d \div 2

\* what jwt.encode signed: the exp claim is in whole seconds; expire is the
\* datetime the issuer computed
Issued(sub, type, expire) ==
    [sub |-> sub, type |-> type, signed |-> TRUE, exp |-> WholeSeconds(expire),
     expire |-> expire]

\* create_access_token at utcnow() = now; an expires_delta of zero is falsy
\* and gives the default lifetime, as None does
create_access_token(sub, expires_delta, now) ==
    Issued(sub, "access",
           IF expires_delta # 0 THEN now + expires_delta ELSE now + AccessLifetime)

\* create_refresh_token at utcnow() = now
create_refresh_token(sub, now) == Issued(sub, "refresh", now + RefreshLifetime)

\* the token as verify_token meets it at utcnow() = now on a server whose
\* local time is zone half seconds ahead of UTC: jwt.decode compares the exp
\* claim with the whole seconds of utcnow(); verify_token compares utcnow()
\* with fromtimestamp(exp), which is the local time
Presented(token, now, zone) ==
    [sub |-> token.sub, type |-> token.type, signed |-> token.signed,
     expired |-> token.exp < WholeSeconds(now),
     stale |-> now > HalfSeconds(token.exp) + zone]

\* local time minus UTC: an hour behind, UTC, an hour ahead
TzOffsets == {0 - HalfSeconds(3600), 0, HalfSeconds(3600)}

\* expires_delta handed to create_access_token: none, or half seconds
ExpiresDeltas == {0, -2, -1, 1, 2}
IssueTimes == {10, 11}
Waits == 0..3

\* the calls: a token made by create_access_token or create_refresh_token,
\* or forged with another key, verified after a wait for either type
TokenCalls ==
    [done : {TRUE}, kind : {"access", "refresh"}, expires_delta : ExpiresDeltas,
     signed : BOOLEAN, token_type : {"access", "refresh"}, now : IssueTimes,
     wait : Waits]

InitToken ==
    /\ InitLedger
    /\ NoApi
    /\ tz \in TzOffsets
    /\ pureIn \in {c \in TokenCalls : c.kind = "refresh" => c.expires_delta = 0}
    /\ pureOut = [token |-> <<>>, verified |-> <<>>]

\* create_access_token / create_refresh_token called
PureCreateToken ==
    /\ pureOut.token = <<>>
    /\ LET made == IF pureIn.kind = "access"
                   THEN create_access_token("1", pureIn.expires_delta, pureIn.now)
                   ELSE create_refresh_token("1", pureIn.now)
       IN pureOut' = [pureOut EXCEPT !.token = <<[made EXCEPT !.signed = pureIn.signed]>>]
    /\ UNCHANGED <<ledgerVars, tampered, verdict, pureIn, tz, apiVars>>

\* verify_token called on the token after the wait
PureVerifyToken ==
    /\ pureOut.token # <<>>
    /\ pureOut.verified = <<>>
    /\ pureOut' = [pureOut EXCEPT !.verified =
          <<verify_token(Presented(pureOut.token[1], pureIn.now + pureIn.wait, tz),
                         pureIn.token_type)>>]
    /\ UNCHANGED <<ledgerVars, tampered, verdict, pureIn, tz, apiVars>>

NextToken ==
    \/ PureCreateToken /\ UNCHANGED reqVars
    \/ PureVerifyToken /\ UNCHANGED reqVars

SpecToken == InitToken /\ [][NextToken]_vars

\* --------------------------------------- the dashboard requests (get_db)
LedgerHandlers == {"dashboard_page", "realworld_input", "upload_invoice"}

\* file.filename of an upload: accepted, missing, of a type not allowed
Filenames == {"invoice.png", "", "notes.txt"}

\* a bug: realworld_input passes the actor field of the form on
HandlerArgs_form_actor(r) ==
    IF r.handler = "realworld_input"
    THEN [actor |-> r.actor, action |-> "real_world_event",
          data |-> JDict(<<KV("description", JInt(1)), KV("amount", JInt(2))>>)]
    ELSE [actor |-> "User:" \o r.user.email, action |-> "invoice_uploaded",
          data |-> JDict(<<KV("filename", JInt(1)), KV("file_size", JInt(2)),
                           KV("ocr_data", JDict(<<>>))>>)]

\* the arguments realworld_input and upload_invoice pass to
\* append_ledger_entry
HandlerArgs(r) ==
    IF r.handler = "realworld_input"
    THEN [actor |-> "User:" \o r.user.email, action |-> "real_world_event",
          data |-> JDict(<<KV("description", JInt(1)), KV("amount", JInt(2))>>)]
    ELSE [actor |-> "User:" \o r.user.email, action |-> "invoice_uploaded",
          data |-> JDict(<<KV("filename", JInt(1)), KV("file_size", JInt(2)),
                           KV("ocr_data", JDict(<<>>))>>)]

\* the request leaves its handler (or a dependency) with an HTTPException
Refused(r, status, detail) ==
    [r EXCEPT !.stage = "respond", !.status = status, !.detail = detail]

\* get_db: FastAPI enters session_scope for a request
get_db(s, h, tok, f) ==
    /\ OpenSession(s)
    /\ req' = [req EXCEPT ![s] = [NoReq EXCEPT !.handler = h, !.token = tok,
                                               !.arg = f, !.stage = "auth"]]
    /\ exc' = [exc EXCEPT ![s] = ""]
    /\ UNCHANGED users

\* HTTPBearer and get_current_user
get_current_user(s) ==
    /\ req[s].stage = "auth"
    /\ IF req[s].token = NoToken
       THEN /\ \E st \in {401, 403} :
                 req' = [req EXCEPT ![s] = Refused(@, st, "Not authenticated")]
            /\ exc' = [exc EXCEPT ![s] = "HTTPException"]
       ELSE LET got == get_current_user_from_token(req[s].token)
            IN IF got.err # ""
               THEN /\ req' = [req EXCEPT ![s] = Refused(@, 401, got.err)]
                    /\ exc' = [exc EXCEPT ![s] = "HTTPException"]
               ELSE /\ req' = [req EXCEPT ![s].stage = "handler", ![s].user = got.user]
                    /\ exc' = exc
    /\ UNCHANGED <<ledgerVars, otherVars, users>>

\* a bug: the permission check of the handler is missing
check_permission_open(s) ==
    /\ req[s].stage = "handler"
    /\ req[s].handler \in {"realworld_input", "upload_invoice"}
    /\ req' = [req EXCEPT ![s].stage = "body"]
    /\ exc' = exc
    /\ UNCHANGED <<ledgerVars, otherVars, users>>

\* realworld_input and upload_invoice up to the try block: the permission
\* check, then the checks of the uploaded file's name
check_permission(s) ==
    /\ req[s].stage = "handler"
    /\ req[s].handler \in {"realworld_input", "upload_invoice"}
    /\ IF ~has_permission(req[s].user.role, ORCHESTRATOR)
       THEN /\ req' = [req EXCEPT ![s] = Refused(@, 403, "Orchestrator access required")]
            /\ exc' = [exc EXCEPT ![s] = "HTTPException"]
       ELSE IF req[s].handler = "upload_invoice" /\ req[s].arg = ""
       THEN /\ req' = [req EXCEPT ![s] = Refused(@, 400, "No file selected")]
            /\ exc' = [exc EXCEPT ![s] = "HTTPException"]
       ELSE IF req[s].handler = "upload_invoice" /\ req[s].arg # "invoice.png"
       THEN /\ req' = [req EXCEPT ![s] = Refused(@, 400, "Unsupported file type")]
            /\ exc' = [exc EXCEPT ![s] = "HTTPException"]
       ELSE /\ req' = [req EXCEPT ![s].stage = "body"]
            /\ exc' = exc
    /\ UNCHANGED <<ledgerVars, otherVars, users>>

\* dashboard_page: the recent-entries read, then the page
dashboard_page(s) ==
    /\ req[s].stage = "handler"
    /\ req[s].handler = "dashboard_page"
    /\ ReadRecent(s)
    /\ req' = [req EXCEPT ![s].stage = "respond", ![s].status = 200]
    /\ UNCHANGED <<users, exc>>

\* the handler's call of append_ledger_entry, first half
handler_append_read_tail(s) ==
    /\ req[s].stage = "body"
    /\ owned[s] = <<>>
    /\ append_read_tail(s, HandlerArgs(req[s]), MaxEntries)
    /\ UNCHANGED reqVars

\* the handler's call of append_ledger_entry, second half
handler_append_flush(s) ==
    /\ req[s].stage = "body"
    /\ append_flush(s)
    /\ UNCHANGED reqVars

\* after the append: the recent-entries read and the page
handler_respond(s) ==
    /\ req[s].stage = "body"
    /\ owned[s] # <<>>
    /\ ReadRecent(s)
    /\ req' = [req EXCEPT ![s].stage = "respond", ![s].status = 200,
                          ![s].detail = IF req[s].handler = "realworld_input"
                                        THEN "Event recorded to ledger."
                                        ELSE "Invoice uploaded and processed"]
    /\ UNCHANGED <<users, exc>>

\* something in the handler's body raises, before or after the append:
\* upload_invoice turns it into an HTTPException 500, realworld_input
\* lets it through
handler_raises(s) ==
    /\ req[s].stage = "body"
    /\ pc[s] = "open"
    /\ IF req[s].handler = "upload_invoice"
       THEN /\ req' = [req EXCEPT ![s] = [Refused(@, 500, "Error processing file")
                                            EXCEPT !.doomed = pending[s]]]
            /\ exc' = [exc EXCEPT ![s] = "HTTPException"]
       ELSE /\ req' = [req EXCEPT ![s].stage = "respond", ![s].status = 500,
                                  ![s].doomed = pending[s]]
            /\ exc' = [exc EXCEPT ![s] = "Exception"]
    /\ UNCHANGED <<ledgerVars, otherVars, users>>

\* session_scope after the yield, nothing raised: session.commit()
scope_commit(s) ==
    /\ req[s].stage = "respond"
    /\ exc[s] = ""
    /\ IF pending[s] # <<>> THEN Commit(s) ELSE UNCHANGED <<ledgerVars, otherVars>>
    /\ req' = [req EXCEPT ![s].stage = "exit"]
    /\ UNCHANGED <<users, exc>>

\* session.commit() itself raises (the store is busy or gone)
scope_commit_fails(s) ==
    /\ req[s].stage = "respond"
    /\ exc[s] = ""
    /\ pending[s] # <<>>
    /\ req' = [req EXCEPT ![s].status = 500, ![s].doomed = pending[s]]
    /\ exc' = [exc EXCEPT ![s] = "OperationalError"]
    /\ UNCHANGED <<ledgerVars, otherVars, users>>

\* a bug: the except clause commits what was flushed instead of rolling back
scope_rollback_commits(s) ==
    /\ req[s].stage = "respond"
    /\ exc[s] # ""
    /\ IF pending[s] # <<>> THEN Commit(s) ELSE UNCHANGED <<ledgerVars, otherVars>>
    /\ req' = [req EXCEPT ![s].stage = "exit"]
    /\ UNCHANGED <<users, exc>>

\* session_scope, except Exception: session.rollback(), then raise
scope_rollback(s) ==
    /\ req[s].stage = "respond"
    /\ exc[s] # ""
    /\ IF pending[s] # <<>> THEN Rollback(s) ELSE UNCHANGED <<ledgerVars, otherVars>>
    /\ req' = [req EXCEPT ![s].stage = "exit"]
    /\ UNCHANGED <<users, exc>>

\* session_scope, finally: session.close(); the response or the exception
\* goes out
scope_close(s) ==
    /\ req[s].stage = "exit"
    /\ Close(s)
    /\ req' = [req EXCEPT ![s] = NoReq]
    /\ exc' = [exc EXCEPT ![s] = ""]
    /\ UNCHANGED users

\* The handlers are coroutines on one event loop and make their store calls
\* without awaiting: a handler runs from its dependencies to its return
\* before another request's does.  The exit of session_scope runs in a
\* worker thread and overlaps the next request; it matters to that request
\* while the session holds flushed entries.
Wrote(t) == pending[t] # <<>>
InHandler(t) ==
    \/ req[t].stage \in {"auth", "handler", "body"}
    \/ req[t].stage \in {"respond", "exit"} /\ ~Wrote(t)
MayRun(s) == \A t \in Sessions \ {s} : ~InHandler(t)

\* requests to the dashboard routes
NextReq ==
    \E s \in Sessions :
        \/ \E h \in LedgerHandlers : \E tok \in Tokens : \E f \in Filenames :
              MayRun(s) /\ (h = "upload_invoice" \/ f = "") /\ get_db(s, h, tok, f)
        \/ MayRun(s) /\ get_current_user(s)
        \/ MayRun(s) /\ check_permission(s)
        \/ MayRun(s) /\ dashboard_page(s)
        \/ MayRun(s) /\ handler_append_read_tail(s)
        \/ MayRun(s) /\ handler_append_flush(s)
        \/ MayRun(s) /\ handler_respond(s)
        \/ MayRun(s) /\ handler_raises(s)
        \/ MayRun(s) /\ scope_commit(s)
        \/ MayRun(s) /\ scope_commit_fails(s)
        \/ MayRun(s) /\ scope_rollback(s)
        \/ MayRun(s) /\ scope_close(s)

SpecReq == Init /\ [][NextReq]_vars

\* ---------------------------------- the actor field of the posted form
\* actor of realworld_input's form: its default, the name of another user,
\* the name of an agent; a client may post the field to upload_invoice too,
\* which declares no such parameter
FormActors == {"Human:orchestrator", "User:admin@x", "Agent:bookkeeper"}

\* the callers: the admin, the orchestrator, the viewer
FormTokens == {AccessToken(1), AccessToken(2), AccessToken(3)}

\* get_db for a POST of a form that carries an actor field
form_get_db(s, h, tok, a) ==
    /\ OpenSession(s)
    /\ req' = [req EXCEPT ![s] = [NoReq EXCEPT !.handler = h, !.token = tok,
                                               !.arg = IF h = "upload_invoice"
                                                       THEN "invoice.png" ELSE "",
                                               !.actor = a, !.stage = "auth"]]
    /\ exc' = [exc EXCEPT ![s] = ""]
    /\ UNCHANGED users

NextForm ==
    \E s \in Sessions :
        \/ \E h \in {"realworld_input", "upload_invoice"} : \E tok \in FormTokens :
              \E a \in FormActors : MayRun(s) /\ form_get_db(s, h, tok, a)
        \/ MayRun(s) /\ get_current_user(s)
        \/ MayRun(s) /\ check_permission(s)
        \/ MayRun(s) /\ handler_append_read_tail(s)
        \/ MayRun(s) /\ handler_append_flush(s)
        \/ MayRun(s) /\ handler_respond(s)
        \/ MayRun(s) /\ scope_commit(s)
        \/ MayRun(s) /\ scope_rollback(s)
        \/ MayRun(s) /\ scope_close(s)

SpecForm == Init /\ [][NextForm]_vars

\* ------------------------------------------- the user management requests
AdminHandlers == {"register", "list_users", "deactivate_user", "activate_user"}

\* RegisterRequest.email: a new address and one already taken; emails are
\* unique, so the users table grows by one row at most
RegisterEmails == {"new@x", "admin@x"}

\* the callers: the three seeded roles, the registered user, no credentials
AuthTokens ==
    {AccessToken(1), AccessToken(2), AccessToken(3),
     AccessToken(Len(SeedUsers) + 1), NoToken}

\* user_id in the path: the admin, the inactive user, the registered user,
\* and an id no user has
PathUserIds == {1, Len(SeedUsers), Len(SeedUsers) + 1, Len(SeedUsers) + 2}

\* the request body and path parameters that a handler reads
AuthInputs(h) ==
    IF h = "register"
    THEN {[email |-> e, role |-> r, user_id |-> 0] :
             e \in RegisterEmails, r \in {VIEWER, ADMIN}}
    ELSE IF h = "list_users" THEN {[email |-> "", role |-> VIEWER, user_id |-> 0]}
    ELSE {[email |-> "", role |-> VIEWER, user_id |-> i] : i \in PathUserIds}

\* get_db for a request to /auth/...
auth_get_db(s, h, tok, in) ==
    /\ OpenSession(s)
    /\ req' = [req EXCEPT ![s] = [NoReq EXCEPT !.handler = h, !.token = tok,
                                               !.arg = in.email, !.role = in.role,
                                               !.user_id = in.user_id,
                                               !.stage = "auth"]]
    /\ exc' = [exc EXCEPT ![s] = ""]
    /\ UNCHANGED users

\* a bug: any role that may append to the ledger passes
require_admin_orchestrator(s) ==
    /\ req[s].stage = "handler"
    /\ req[s].handler \in AdminHandlers
    /\ IF ~has_permission(req[s].user.role, ORCHESTRATOR)
       THEN /\ req' = [req EXCEPT ![s] = Refused(@, 403, "Admin access required")]
            /\ exc' = [exc EXCEPT ![s] = "HTTPException"]
       ELSE /\ req' = [req EXCEPT ![s].stage = "body"]
            /\ exc' = exc
    /\ UNCHANGED <<ledgerVars, otherVars, users>>

\* require_admin
require_admin(s) ==
    /\ req[s].stage = "handler"
    /\ req[s].handler \in AdminHandlers
    /\ IF req[s].user.role # ADMIN
       THEN /\ req' = [req EXCEPT ![s] = Refused(@, 403, "Admin access required")]
            /\ exc' = [exc EXCEPT ![s] = "HTTPException"]
       ELSE /\ req' = [req EXCEPT ![s].stage = "body"]
            /\ exc' = exc
    /\ UNCHANGED <<ledgerVars, otherVars, users>>

MaxUserId ==
    IF users = <<>> THEN 0
    ELSE CHOOSE m \in {users[i].id : i \in 1..Len(users)} :
            \A i \in 1..Len(users) : users[i].id <= m

\* the row with this id given a new is_active
SetActive(id, flag) ==
    [i \in 1..Len(users) |->
        IF users[i].id = id THEN [users[i] EXCEPT !.is_active = flag] ELSE users[i]]

\* register: create_user adds the row and commits, unless the email is
\* taken. No ledger writer is open during these requests, so the commit is
\* accepted.
register(s) ==
    /\ req[s].stage = "body"
    /\ req[s].handler = "register"
    /\ IF \E i \in 1..Len(users) : users[i].email = req[s].arg
       THEN /\ req' = [req EXCEPT ![s] = Refused(@, 400, "User with email " \o req[s].arg
                                                          \o " already exists")]
            /\ exc' = [exc EXCEPT ![s] = "HTTPException"]
            /\ users' = users
       ELSE /\ users' = Append(users, User(MaxUserId + 1, req[s].arg, req[s].role, TRUE))
            /\ req' = [req EXCEPT ![s].stage = "respond", ![s].status = 200]
            /\ exc' = exc
    /\ UNCHANGED <<ledgerVars, otherVars>>

\* list_users
list_users(s) ==
    /\ req[s].stage = "body"
    /\ req[s].handler = "list_users"
    /\ req' = [req EXCEPT ![s].stage = "respond", ![s].status = 200]
    /\ UNCHANGED <<ledgerVars, otherVars, users, exc>>

\* deactivate_user
deactivate_user(s) ==
    /\ req[s].stage = "body"
    /\ req[s].handler = "deactivate_user"
    /\ IF get_user_by_id(req[s].user_id) = NoUser
       THEN /\ req' = [req EXCEPT ![s] = Refused(@, 404, "User not found")]
            /\ exc' = [exc EXCEPT ![s] = "HTTPException"]
            /\ users' = users
       ELSE IF req[s].user_id = req[s].user.id
       THEN /\ req' = [req EXCEPT ![s] = Refused(@, 400, "Cannot deactivate yourself")]
            /\ exc' = [exc EXCEPT ![s] = "HTTPException"]
            /\ users' = users
       ELSE /\ users' = SetActive(req[s].user_id, FALSE)
            /\ req' = [req EXCEPT ![s].stage = "respond", ![s].status = 200]
            /\ exc' = exc
    /\ UNCHANGED <<ledgerVars, otherVars>>

\* activate_user
activate_user(s) ==
    /\ req[s].stage = "body"
    /\ req[s].handler = "activate_user"
    /\ IF get_user_by_id(req[s].user_id) = NoUser
       THEN /\ req' = [req EXCEPT ![s] = Refused(@, 404, "User not found")]
            /\ exc' = [exc EXCEPT ![s] = "HTTPException"]
            /\ users' = users
       ELSE /\ users' = SetActive(req[s].user_id, TRUE)
            /\ req' = [req EXCEPT ![s].stage = "respond", ![s].status = 200]
            /\ exc' = exc
    /\ UNCHANGED <<ledgerVars, otherVars>>

\* requests to the user management routes
NextAuth ==
    \E s \in Sessions :
        \/ \E h \in AdminHandlers : \E tok \in AuthTokens : \E in \in AuthInputs(h) :
              MayRun(s) /\ auth_get_db(s, h, tok, in)
        \/ MayRun(s) /\ get_current_user(s)
        \/ MayRun(s) /\ require_admin(s)
        \/ MayRun(s) /\ register(s)
        \/ MayRun(s) /\ list_users(s)
        \/ MayRun(s) /\ deactivate_user(s)
        \/ MayRun(s) /\ activate_user(s)
        \/ MayRun(s) /\ scope_commit(s)
        \/ MayRun(s) /\ scope_rollback(s)
        \/ MayRun(s) /\ scope_close(s)

SpecAuth == Init /\ [][NextAuth]_vars

\* --------------------------- user management requests that run concurrently
\* Several worker processes serve requests on the one database: nothing
\* orders the steps of one request against those of another, so a caller is
\* authenticated in one step and is_active is updated in a later one.
ConcurrentHandlers == {"register", "deactivate_user", "activate_user"}

\* the callers: the seeded admin and the admin that gets registered
AdminTokens == {AccessToken(1), AccessToken(Len(SeedUsers) + 1)}

\* a second admin is registered; the two admins are the targets of
\* deactivate_user, the registered one of activate_user
ConcurrentInputs(h) ==
    IF h = "register"
    THEN {[email |-> "new@x", role |-> ADMIN, user_id |-> 0]}
    ELSE IF h = "activate_user"
    THEN {[email |-> "", role |-> VIEWER, user_id |-> Len(SeedUsers) + 1]}
    ELSE {[email |-> "", role |-> VIEWER, user_id |-> i] :
             i \in {1, Len(SeedUsers) + 1}}

NextConcurrent ==
    \E s \in Sessions :
        \/ \E h \in ConcurrentHandlers : \E tok \in AdminTokens :
              \E in \in ConcurrentInputs(h) : auth_get_db(s, h, tok, in)
        \/ get_current_user(s)
        \/ require_admin(s)
        \/ register(s)
        \/ deactivate_user(s)
        \/ activate_user(s)
        \/ scope_commit(s)
        \/ scope_rollback(s)
        \/ scope_close(s)

SpecConcurrent == Init /\ [][NextConcurrent]_vars

\* ------------------------------------- login, refresh and the current user
AccountHandlers ==
    {"login", "refresh_token", "get_current_user_info", "deactivate_user",
     "activate_user"}

\* tokens of create_token_response for user id, presented two half seconds
\* after they were issued
FreshAccess(id) == Presented(create_access_token(IntStr(id), 0, 10), 12, tz)
FreshRefresh(id) == Presented(create_refresh_token(IntStr(id), 10), 12, tz)

\* the same tokens presented two half seconds after their lifetime
LapsedAccess(id) ==
    Presented(create_access_token(IntStr(id), 0, 10), 12 + AccessLifetime, tz)
LapsedRefresh(id) ==
    Presented(create_refresh_token(IntStr(id), 10), 12 + RefreshLifetime, tz)

\* the users whose accounts an admin switches off and on: the viewer and
\* the orchestrator that starts inactive
Targets == {3, 4}

\* what a request carries: LoginRequest, RefreshTokenRequest, or bearer
\* credentials and the user_id of the path
AccountInputs(h) ==
    IF h = "login"
    THEN {[token |-> NoToken, email |-> e, password |-> p, user_id |-> 0] :
             e \in {"viewer@x", "gone@x", "nobody@x"},
             p \in {SeedPassword("viewer@x"), SeedPassword("gone@x")}}
    ELSE IF h = "refresh_token"
    THEN {[token |-> k, email |-> "", password |-> "", user_id |-> 0] :
             k \in {FreshRefresh(3), FreshRefresh(4), FreshRefresh(7), FreshAccess(3),
                    LapsedRefresh(3), [FreshRefresh(3) EXCEPT !.signed = FALSE]}}
    ELSE IF h = "get_current_user_info"
    THEN {[token |-> k, email |-> "", password |-> "", user_id |-> 0] :
             k \in {FreshAccess(3), FreshAccess(4), LapsedAccess(3), FreshRefresh(3)}}
    ELSE {[token |-> FreshAccess(1), email |-> "", password |-> "", user_id |-> i] :
             i \in Targets}

\* get_db for a request to /auth/login, /auth/refresh, /auth/me or the
\* two admin routes; login and refresh_token have no other dependency
account_get_db(s, h, in) ==
    /\ OpenSession(s)
    /\ req' = [req EXCEPT ![s] =
          [NoReq EXCEPT !.handler = h, !.token = in.token, !.arg = in.email,
                        !.password = in.password, !.user_id = in.user_id,
                        !.stage = IF h \in {"login", "refresh_token"}
                                  THEN "body" ELSE "auth"]]
    /\ exc' = [exc EXCEPT ![s] = ""]
    /\ UNCHANGED users

\* get_user_by_email
get_user_by_email(email) ==
    IF \E i \in 1..Len(users) : users[i].email = email
    THEN users[CHOOSE i \in 1..Len(users) : users[i].email = email]
    ELSE NoUser

\* a bug: the password is not looked at
authenticate_user_any_password(email, password) ==
    LET user == get_user_by_email(email)
    IN IF user = NoUser THEN NoUser
       ELSE IF ~user.is_active THEN NoUser
       ELSE user

\* authenticate_user up to the update: the user, or NoUser for None
authenticate_user(email, password) ==
    LET user == get_user_by_email(email)
    IN IF user = NoUser THEN NoUser
       ELSE IF ~user.is_active THEN NoUser
       ELSE IF ~verify_password(password, user.hashed_password) THEN NoUser
       ELSE user

\* the row with this id given a new last_login
SetLastLogin(id, now) ==
    [i \in 1..Len(users) |->
        IF users[i].id = id THEN [users[i] EXCEPT !.last_login = now] ELSE users[i]]

\* login: authenticate_user sets last_login and commits; the response
\* carries the tokens of create_token_response for the user
login(s) ==
    /\ req[s].stage = "body"
    /\ req[s].handler = "login"
    /\ LET user == authenticate_user(req[s].arg, req[s].password)
       IN IF user = NoUser
          THEN /\ req' = [req EXCEPT ![s] = Refused(@, 401, "Invalid email or password")]
               /\ exc' = [exc EXCEPT ![s] = "HTTPException"]
               /\ users' = users
          ELSE /\ users' = SetLastLogin(user.id, clock)
               /\ req' = [req EXCEPT ![s].stage = "respond", ![s].status = 200,
                                     ![s].user = [user EXCEPT !.last_login = clock]]
               /\ exc' = exc
    /\ UNCHANGED <<ledgerVars, otherVars>>

\* refresh_token
refresh_token(s) ==
    /\ req[s].stage = "body"
    /\ req[s].handler = "refresh_token"
    /\ LET err == verify_token(req[s].token, "refresh")
           got == get_current_user_from_token(req[s].token)
       IN IF err # ""
          THEN req' = [req EXCEPT ![s] = Refused(@, 401, err)]
          ELSE IF req[s].token.sub = ""
          THEN req' = [req EXCEPT ![s] = Refused(@, 401, "Invalid refresh token")]
          ELSE IF got.err # ""
          THEN req' = [req EXCEPT ![s] = Refused(@, 401, got.err)]
          ELSE req' = [req EXCEPT ![s].stage = "respond", ![s].status = 200,
                                  ![s].user = got.user]
    /\ exc' = [exc EXCEPT ![s] = IF req'[s].status = 200 THEN "" ELSE "HTTPException"]
    /\ UNCHANGED <<ledgerVars, otherVars, users>>

\* get_current_user_info
get_current_user_info(s) ==
    /\ req[s].stage = "handler"
    /\ req[s].handler = "get_current_user_info"
    /\ req' = [req EXCEPT ![s].stage = "respond", ![s].status = 200]
    /\ UNCHANGED <<ledgerVars, otherVars, users, exc>>

\* requests to the account routes, one handler at a time
NextAccount ==
    \E s \in Sessions :
        \/ \E h \in AccountHandlers : \E in \in AccountInputs(h) :
              MayRun(s) /\ account_get_db(s, h, in)
        \/ MayRun(s) /\ get_current_user(s)
        \/ MayRun(s) /\ require_admin(s)
        \/ MayRun(s) /\ login(s)
        \/ MayRun(s) /\ refresh_token(s)
        \/ MayRun(s) /\ get_current_user_info(s)
        \/ MayRun(s) /\ deactivate_user(s)
        \/ MayRun(s) /\ activate_user(s)
        \/ MayRun(s) /\ scope_commit(s)
        \/ MayRun(s) /\ scope_rollback(s)
        \/ MayRun(s) /\ scope_close(s)

\* the zone of the server is one of TzOffsets
InitAccount ==
    /\ InitLedger
    /\ NoApi
    /\ tz \in TzOffsets
    /\ pureIn = NoPure
    /\ pureOut = NoPure

SpecAccount == InitAccount /\ [][NextAccount]_vars

\* ------------------------------------------------------- the rate limiter
\* self.requests without the times that left the window
InWindow(requests, now) ==
    LET Recent(req_time) == now - req_time < limiter.time_window
    IN SelectSeq(requests, Recent)

\* min(self.requests)
MinOf(requests) ==
    CHOOSE m \in {requests[i] : i \in 1..Len(requests)} :
        \A i \in 1..Len(requests) : m <= requests[i]

\* acquire() up to its await, or to its return when it does not wait: the
\* old requests are dropped; at the limit the coroutine sleeps until the
\* oldest request leaves the window; otherwise now is recorded
acquire_begin(c) ==
    /\ co[c].pc = "idle"
    /\ LET kept == InWindow(limiter.requests, time)
           wait_time == limiter.time_window - (time - MinOf(kept))
       IN IF Len(kept) >= limiter.max_requests /\ wait_time > 0
          THEN /\ limiter' = [limiter EXCEPT !.requests = kept]
               /\ co' = [co EXCEPT ![c] = [pc |-> "sleep", now |-> time,
                                           wake |-> time + wait_time]]
               /\ acquired' = acquired
          ELSE /\ limiter' = [limiter EXCEPT !.requests = Append(kept, time)]
               /\ co' = co
               /\ acquired' = Append(acquired, time)
    /\ UNCHANGED time

\* acquire() after asyncio.sleep: the now read before the sleep is
\* recorded, and the call returns
acquire_wake(c) ==
    /\ co[c].pc = "sleep"
    /\ time >= co[c].wake
    /\ limiter' = [limiter EXCEPT !.requests = Append(@, co[c].now)]
    /\ co' = [co EXCEPT ![c] = Idle]
    /\ acquired' = Append(acquired, time)
    /\ UNCHANGED time

\* a second passes
Tick ==
    /\ time < MaxTime
    /\ time' = time + 1
    /\ UNCHANGED <<limiter, co, acquired>>

LimiterRest == <<ledgerVars, tampered, verdict, pureIn, pureOut, tz, call, reqVars>>

\* coroutines calling acquire() on one RateLimiter
NextLimiter ==
    \/ \E c \in Coroutines : acquire_begin(c) /\ UNCHANGED LimiterRest
    \/ \E c \in Coroutines : acquire_wake(c) /\ UNCHANGED LimiterRest
    \/ Tick /\ UNCHANGED LimiterRest

InitLimiter ==
    /\ InitLedger
    /\ tz = 0
    /\ pureIn = NoPure
    /\ pureOut = NoPure
    /\ \E m \in {1, 2} : \E w \in {2, 3} : limiter = RateLimiter(m, w)
    /\ time = 0
    /\ co = [c \in Coroutines |-> Idle]
    /\ acquired = <<>>
    /\ call = NoCall

SpecLimiter == InitLimiter /\ [][NextLimiter]_vars

\* --------------------------------------------------------- the API client
\* what self.client.request gives: a response with its status, whether its
\* body is JSON, and its Retry-After header ("" when absent); or one of
\* the two httpx exceptions
Response(status, body, retry_after) ==
    [kind |-> "response", status |-> status, body |-> body, retry_after |-> retry_after]
Responses ==
    {Response(200, "json", ""), Response(200, "text", ""),
     Response(429, "json", ""), Response(429, "json", "1"),
     Response(429, "json", "Wed, 21 Oct 2015 07:28:00 GMT"),
     Response(500, "json", ""), Response(404, "text", ""),
     [kind |-> "TimeoutException", status |-> 0, body |-> "", retry_after |-> ""],
     [kind |-> "RequestError", status |-> 0, body |-> "", retry_after |-> ""]}

\* int(s) succeeds
IsInt(str) == \E i \in 0..12 : IntStr(i) = str

\* _make_request(..., retries) is called on the client
make_request(retries) ==
    /\ call.stage \in {"none", "done"}
    /\ call.n < MaxCalls
    /\ call' = [NoCall EXCEPT !.stage = "acquire", !.retries = retries,
                              !.n = call.n + 1]
    /\ UNCHANGED <<limiter, time, co, acquired>>

\* await self.rate_limiter.acquire(), once for the call
client_acquire ==
    /\ call.stage = "acquire"
    /\ acquire_begin(1)
    /\ call' = [call EXCEPT !.stage = IF co'[1].pc = "idle" THEN "loop" ELSE "acquire"]

\* the call ends
Ended(outcome, status, message) ==
    [call EXCEPT !.stage = "done", !.sent = @ + 1, !.outcome = outcome,
                 !.status = status, !.message = message]

\* the call sleeps and goes on to the next attempt
Again(wait_time) ==
    [call EXCEPT !.sent = @ + 1, !.attempt = @ + 1, !.slept = wait_time]

\* one pass of the for loop: the request is sent and its outcome handled
send(r) ==
    /\ call.stage = "loop"
    /\ call.attempt <= call.retries
    /\ LET next ==
             IF r.kind = "TimeoutException"
             THEN IF call.attempt < call.retries THEN Again(2 ^ call.attempt)
                  ELSE Ended("APIError", 0, "Request timeout after all retries")
             ELSE IF r.kind = "RequestError"
             THEN IF call.attempt < call.retries THEN Again(2 ^ call.attempt)
                  ELSE Ended("APIError", 0, "Request failed")
             ELSE IF r.status = 200
             THEN IF r.body = "json" THEN Ended("returned", 200, "")
                  ELSE Ended("JSONDecodeError", 0, "")
             ELSE IF r.status = 429
             THEN IF r.retry_after = "" THEN Again(60)
                  ELSE IF IsInt(r.retry_after) THEN Again(StrInt(r.retry_after))
                  ELSE Ended("ValueError", 0, "")
             ELSE IF 500 <= r.status /\ r.status < 600 /\ call.attempt < call.retries
             THEN Again(2 ^ call.attempt)
             ELSE Ended("APIError", r.status, "API request failed")
       IN /\ call' = [next EXCEPT !.last = IF r.kind = "response"
                                             THEN IntStr(r.status \div 100) \o "xx"
                                             ELSE r.kind,
                                  !.status = IF next.stage = "done" THEN @ ELSE r.status]
          /\ time' = IF next.stage = "done" THEN time ELSE time + next.slept
    /\ UNCHANGED <<limiter, co, acquired>>

\* the for loop ran out of attempts
loop_exhausted ==
    /\ call.stage = "loop"
    /\ call.attempt > call.retries
    /\ call' = [call EXCEPT !.stage = "done", !.outcome = "APIError",
                            !.message = "Max retries exceeded"]
    /\ UNCHANGED <<limiter, time, co, acquired>>

ClientRest == <<ledgerVars, tampered, verdict, pureIn, pureOut, tz, reqVars>>

\* calls of _make_request on one client, one after the other
NextClient ==
    \/ \E retries \in 0..MaxRetries : make_request(retries) /\ UNCHANGED ClientRest
    \/ client_acquire /\ UNCHANGED ClientRest
    \/ \E r \in Responses : send(r) /\ UNCHANGED ClientRest
    \/ loop_exhausted /\ UNCHANGED ClientRest

\* BaseAPIClient.__init__ with its default rate_limit
InitClient ==
    /\ InitLedger
    /\ tz = 0
    /\ pureIn = NoPure
    /\ pureOut = NoPure
    /\ limiter = RateLimiter(100, 60)
    /\ time = 0
    /\ co = [c \in Coroutines |-> Idle]
    /\ acquired = <<>>
    /\ call = NoCall

SpecClient == InitClient /\ [][NextClient]_vars

\* ============================================================= properties
Range(seq) == {seq[i] : i \in 1..Len(seq)}

\* the chain linkage of a list of entries in id order
Linked(rows) ==
    \A i \in 1..Len(rows) :
        rows[i].prev_hash = (IF i = 1 THEN GENESIS ELSE rows[i - 1].hash)

IdsIncreasing(rows) ==
    \A i \in 1..Len(rows) : \A j \in 1..Len(rows) :
        i < j => rows[i].id < rows[j].id

RECURSIVE PendingUpTo(_)
PendingUpTo(n) == IF n = 0 THEN 0 ELSE Len(pending[n]) + PendingUpTo(n - 1)
PendingCount == PendingUpTo(NSess)

\* C1: after any number of appends made one after another (in one session or
\* several, committed in between or not), the entries a session sees, in id
\* order, are linked: the first has prev_hash GENESIS, every later one has
\* the hash of its predecessor as prev_hash.
C1_ChainLinkage ==
    /\ Linked(committed)
    /\ \A s \in Sessions : Linked(VisibleRows(s)) /\ IdsIncreasing(VisibleRows(s))

\* two appends of one session, the first not committed when the second ran
C1_Witness ==
    \E s \in Sessions :
        /\ Len(pending[s]) >= 2
        /\ pending[s][2].prev_hash = pending[s][1].hash

\* C2: under every interleaving of appends from separate sessions, the
\* committed entries are linked and no two of them have the same prev_hash.
C2_NoFork ==
    /\ Linked(committed)
    /\ \A i \in 1..Len(committed) : \A j \in 1..Len(committed) :
          i # j => committed[i].prev_hash # committed[j].prev_hash

Recompute(e) ==
    compute_ledger_hash(e.prev_hash, e.timestamp, e.actor, e.action, e.data)

\* the entry that object e is, whatever form its timestamp is held in
SameEntry(e, r) == e.id = r.id /\ e.hash = r.hash
IsCommitted(e) == \E i \in 1..Len(committed) : SameEntry(e, committed[i])
Sees(t, e) == \E i \in 1..Len(VisibleRows(t)) : SameEntry(e, VisibleRows(t)[i])

\* C4: for every entry made by append_ledger_entry, as the appending session
\* holds it and as any session reads it back from the store, recomputing
\* compute_ledger_hash from its fields gives its stored hash.
C4_HashReproducible ==
    \A s \in Sessions :
        \A e \in Range(owned[s]) \cup Range(result[s]) : Recompute(e) = e.hash

\* no mapping payload, the empty one included, canonicalizes to the string
\* that None canonicalizes to
NoMappingIsNull ==
    \A p \in PureDicts : canonicalize_payload(p) # canonicalize_payload(JNone)

\* C8: canonicalize_payload(None) is "null", no mapping (the empty one
\* included) canonicalizes to the string that None canonicalizes to, and
\* an entry appended with data=None carries the hash of
\* its fields joined with "null", the same as compute_ledger_hash gives.
C8_NullPayload ==
    /\ canonicalize_payload(JNone) = "null"
    /\ NoMappingIsNull
    /\ \A s \in Sessions : \A e \in Range(owned[s]) :
          /\ e.data # JNone => canonicalize_payload(e.data) # canonicalize_payload(JNone)
          /\ e.data = JNone =>
                /\ e.hash = Sha256Hex(e.prev_hash \o "|" \o IsoFormat(e.timestamp) \o "|"
                                      \o e.actor \o "|" \o e.action \o "|null")
                /\ e.hash = Recompute(e)

\* one session appended an entry without payload and one with a payload
C8_Witness ==
    \E s \in Sessions :
        /\ \E e \in Range(owned[s]) : e.data = JNone
        /\ \E e \in Range(owned[s]) : e.data # JNone

C10_ReadsOnlyCommitted ==
    \A s \in Sessions :
        pending[s] = <<>> => \A e \in Range(result[s]) : IsCommitted(e)

\* the tuple of strings that compute_ledger_hash joins
FieldTuple(f) ==
    <<f.prev_hash, IsoFormat(f.timestamp), f.actor, f.action,
      canonicalize_payload(f.data)>>

\* C6: two distinct tuples (prev_hash, serialized timestamp, actor, action,
\* canonical payload) never give the same joined pre-image, hence never the
\* same hash.
C6_PreimageInjective ==
    pureOut.hash # <<>> =>
        (FieldTuple(pureIn.x) # FieldTuple(pureIn.y) =>
            /\ pureOut.raw[1] # pureOut.raw[2]
            /\ pureOut.hash[1] # pureOut.hash[2])

\* the same keys with the same values, recursively, in whatever order
RECURSIVE SameContent(_, _)
SameContent(v, w) ==
    /\ v.kind = w.kind
    /\ v.n = w.n
    /\ {it.key : it \in Range(v.items)} = {it.key : it \in Range(w.items)}
    /\ Len(v.items) = Len(w.items)
    /\ \A it \in Range(v.items) : \A jt \in Range(w.items) :
          it.key = jt.key => SameContent(it.val, jt.val)

\* C7: two payloads with the same key/value content, recursively, in any
\* insertion order canonicalize to the same string (and so does one payload
\* canonicalized twice).
C7_CanonicalOrderIndependent ==
    (pureOut.canon # <<>> /\ SameContent(pureIn.x.data, pureIn.y.data)) =>
        pureOut.canon[1] = pureOut.canon[2]

\* two payloads canonicalized that differ in the insertion order of the
\* outer keys and of the keys of a nested dict
C7_Witness ==
    /\ pureOut.canon # <<>>
    /\ SameContent(pureIn.x.data, pureIn.y.data)
    /\ Len(pureIn.x.data.items) = 2
    /\ pureIn.x.data.items[1].key # pureIn.y.data.items[1].key
    /\ \E it \in Range(pureIn.x.data.items) : \E jt \in Range(pureIn.y.data.items) :
          it.key = jt.key /\ it.val # jt.val

\* C5: verify_chain over the stored ledger of N >= 2 entries made by appends
\* reports the chain intact when no row was edited, and reports a break at
\* index k or later when one field of row k was edited in storage.
C5_TamperDetected ==
    (verdict.ran /\ verdict.len >= 2) =>
        IF tampered = 0 THEN verdict.brk = 0 ELSE verdict.brk >= tampered

\* C11: when an exception is raised in a request's session_scope after
\* append_ledger_entry flushed an entry and before the commit is done, the
\* session is rolled back, the flushed entry never is in the committed
\* ledger, the exception goes on to the caller, and the session is closed
\* on that path as on every other.
C11_FailureCommitsNothing ==
    \A s \in Sessions :
        /\ \A e \in Range(req[s].doomed) : ~IsCommitted(e) /\ exc[s] # ""
        /\ (req[s].stage \in {"respond", "exit"} /\ req[s].doomed # <<>>) =>
              req[s].status = 500
        /\ (req[s].stage = "exit" /\ exc[s] # "") => pending[s] = <<>>
        /\ req[s].stage = "none" <=> pc[s] = "closed"
        /\ pc[s] = "closed" => pending[s] = <<>> /\ writeLock # s

\* a request raised after its append had flushed an entry and its session
\* was rolled back, while the ledger holds an entry another request committed
C11_Witness ==
    \E s \in Sessions :
        /\ req[s].stage = "exit"
        /\ req[s].doomed # <<>>
        /\ committed # <<>>

\* C12: no step of any request (the dashboard GET, realworld_input,
\* upload_invoice and the append_ledger_entry they call, the exit of their
\* session) changes or removes a committed entry: every committed row stays
\* at its place with all its fields, and no step of a dashboard GET changes
\* the committed ledger or any session's flushed entries.
C12_Immutable ==
    [][/\ Len(committed') >= Len(committed)
       /\ \A i \in 1..Len(committed) : committed'[i] = committed[i]
       /\ \A s \in Sessions :
             (req'[s] # req[s] /\ "dashboard_page" \in {req[s].handler, req'[s].handler})
                => committed' = committed /\ pending' = pending]_vars

\* a dashboard GET has read a ledger of two committed entries
C12_Witness ==
    \E s \in Sessions :
        /\ req[s].handler = "dashboard_page"
        /\ req[s].stage = "respond"
        /\ Len(result[s]) >= 2
        /\ Len(committed) >= 2

IsPrefixOf(a, b) ==
    /\ Len(a) <= Len(b)
    /\ \A i \in 1..Len(a) : SameEntry(a[i], b[i])

\* C14: reads of the ledger are monotone: the entries a read returned, put
\* in ascending id order, are the beginning of what every later read of any
\* session returns in ascending id order, whatever appends, commits and
\* rollbacks happen in between.
C14_ReadsMonotone ==
    [][\A t \in Sessions :
          (pc[t] = "open" /\ pc'[t] = "open" /\ result'[t] # result[t]) =>
              \A s \in Sessions :
                  IsPrefixOf(Reverse(result[s]), Reverse(result'[t]))]_vars

\* C15: append_ledger_entry called with an empty actor or an empty action
\* is rejected with a validation error and adds no entry: no entry of the
\* ledger, flushed or committed, has an empty actor or action.
C15_EmptyRejected ==
    /\ \A s \in Sessions :
          \A e \in Range(pending[s]) : e.actor # "" /\ e.action # ""
    /\ \A i \in 1..Len(committed) :
          committed[i].actor # "" /\ committed[i].action # ""

\* C16: append_ledger_entry called with a payload that cannot be serialized
\* fails before it touches the store: no tail read is made for such a
\* call, and no entry with such a payload is flushed or committed.
C16_RejectedBeforeStore ==
    /\ \A s \in Sessions :
          /\ pc[s] = "append" => Serializable(callArgs[s].data)
          /\ \A e \in Range(pending[s]) : Serializable(e.data)
    /\ \A i \in 1..Len(committed) : Serializable(committed[i].data)

\* C17: an append that lost the race between its tail read and its insert
\* is detected and retried from the tail read, so that no entry is returned
\* to a caller with a stale prev_hash: every entry a session got back from
\* append_ledger_entry has as prev_hash the hash of the entry right before
\* it in the ledger (GENESIS for the first).
C17_NoStaleReturn ==
    \A s \in Sessions :
        LET rows == VisibleRows(s)
        IN \A i \in 1..Len(rows) :
              rows[i] \in Range(owned[s]) =>
                  rows[i].prev_hash = (IF i = 1 THEN GENESIS ELSE rows[i - 1].hash)

\* the request of session s carries the valid access token of a user who
\* is in the users table, active, and ORCHESTRATOR or ADMIN
MayAppend(s) ==
    /\ req[s].token # NoToken
    /\ verify_token(req[s].token, "access") = ""
    /\ \E i \in 1..Len(users) :
          /\ IntStr(users[i].id) = req[s].token.sub
          /\ users[i].is_active
          /\ users[i].role \in {ORCHESTRATOR, ADMIN}

\* the request of session s has its response, and has added nothing
RefusedWith(s, statuses) ==
    /\ req[s].status \in statuses
    /\ pc[s] = "open" /\ owned[s] = <<>> /\ pending[s] = <<>>

\* C18: a request to POST /dashboard/realworld or /dashboard/upload-invoice
\* appends an entry only when it carries the valid access token of an
\* existing, active user whose role is ORCHESTRATOR or ADMIN, and every
\* committed entry names such a user as its actor; a VIEWER gets 403
\* "Orchestrator access required", a request with no token or an invalid
\* one gets 401 or 403, and neither has added anything to the ledger.
C18_AppendNeedsOrchestrator ==
    /\ \A s \in Sessions :
          /\ (pc[s] = "append" \/ owned[s] # <<>> \/ pending[s] # <<>>) =>
                /\ req[s].handler \in {"realworld_input", "upload_invoice"}
                /\ MayAppend(s)
          /\ (/\ req[s].stage \in {"respond", "exit"}
              /\ req[s].handler \in {"realworld_input", "upload_invoice"}
              /\ req[s].user.role = VIEWER /\ req[s].user # NoUser) =>
                /\ RefusedWith(s, {403})
                /\ req[s].detail = "Orchestrator access required"
          /\ (/\ req[s].stage \in {"respond", "exit"}
              /\ (req[s].token = NoToken \/ verify_token(req[s].token, "access") # "")) =>
                RefusedWith(s, {401, 403})
    /\ \A i \in 1..Len(committed) :
          \E k \in 1..Len(users) :
              /\ committed[i].actor = "User:" \o users[k].email
              /\ users[k].is_active
              /\ users[k].role \in {ORCHESTRATOR, ADMIN}

\* a VIEWER's upload is refused while the ledger holds an entry that an
\* authorized request appended
C18_Witness ==
    \E s \in Sessions :
        /\ req[s].handler = "upload_invoice"
        /\ req[s].user.role = VIEWER
        /\ req[s].status = 403
        /\ committed # <<>>

\* the (role, required role) pairs that are granted when
\* VIEWER < ORCHESTRATOR < ADMIN
RoleOrder == <<VIEWER, ORCHESTRATOR, ADMIN>>
RoleIndex(r) == CHOOSE i \in 1..Len(RoleOrder) : RoleOrder[i] = r
GrantedPairs ==
    {<<ADMIN, ADMIN>>, <<ADMIN, ORCHESTRATOR>>, <<ADMIN, VIEWER>>,
     <<ORCHESTRATOR, ORCHESTRATOR>>, <<ORCHESTRATOR, VIEWER>>,
     <<VIEWER, VIEWER>>}

\* has_permission is reflexive, and monotone in the user's role
PermissionIsOrder ==
    /\ \A r \in UserRole : has_permission(r, r)
    /\ \A r \in UserRole : \A h \in UserRole : \A q \in UserRole :
          (has_permission(r, q) /\ RoleIndex(h) >= RoleIndex(r)) => has_permission(h, q)

\* C19: user.has_permission(required) is true exactly for the pairs in
\* which the user's role is at least the required one in the order
\* VIEWER < ORCHESTRATOR < ADMIN, for each of the 9 pairs; it is reflexive
\* and a higher role keeps every permission of a lower one.
C19_RoleHierarchy ==
    /\ pureOut.perm # <<>> =>
          /\ pureOut.perm[1] = (<<pureIn.role, pureIn.required_role>> \in GrantedPairs)
          /\ pureOut.perm[1] = (RoleIndex(pureIn.role) >= RoleIndex(pureIn.required_role))
    /\ PermissionIsOrder

\* has_permission has refused an orchestrator the ADMIN permission
C19_Witness ==
    /\ pureOut.perm = <<FALSE>>
    /\ pureIn.role = ORCHESTRATOR
    /\ pureIn.required_role = ADMIN

\* C20: register, list_users, deactivate_user and activate_user take effect
\* only for a caller whose role is ADMIN: the users table changes only in
\* the handler of an admin's request, only an admin's request is answered
\* 200, and a caller of any other role is answered 403 "Admin access
\* required" with no step of the request changing the users or their
\* is_active flags.
C20_AdminOnly ==
    [][/\ users' # users =>
             \E s \in Sessions :
                 /\ req[s].stage = "body"
                 /\ req[s].user.role = ADMIN
                 /\ req'[s].status = 200
       /\ \A s \in Sessions :
             /\ (req'[s].handler \in AdminHandlers /\ req'[s].status = 200) =>
                   req'[s].user.role = ADMIN /\ req'[s].user # NoUser
             /\ (/\ req[s].handler \in AdminHandlers
                 /\ req[s].user # NoUser
                 /\ req[s].user.role # ADMIN
                 /\ req'[s] # req[s]) =>
                   /\ users' = users
                   /\ req[s].stage = "handler" =>
                         /\ req'[s].status = 403
                         /\ req'[s].detail = "Admin access required"]_vars

\* an orchestrator's request to deactivate a user is refused, after an
\* admin had registered a user and deactivated one
C20_Witness ==
    \E s \in Sessions :
        /\ req[s].handler = "deactivate_user"
        /\ req[s].user.role = ORCHESTRATOR
        /\ req[s].status = 403
        /\ Len(users) > Len(SeedUsers)
        /\ \E i \in 1..Len(users) : ~users[i].is_active /\ users[i].role # ORCHESTRATOR

\* C21: verify_token returns the payload only if the token is validly
\* signed, is presented no later than the expiry its issuer computed, and
\* has the type asked for; otherwise it raises AuthenticationError. A token
\* created with an expiry that had already elapsed is rejected, and a token
\* of one type is never accepted as the other.
C21_VerifyToken ==
    (pureOut.verified # <<>>) =>
        LET token == pureOut.token[1]
            returned == pureOut.verified[1] = ""
        IN /\ returned =>
                 /\ token.signed
                 /\ pureIn.now + pureIn.wait <= token.expire
                 /\ token.type = pureIn.token_type
           /\ (pureIn.kind = "access" /\ pureIn.expires_delta < 0) => ~returned
           /\ pureIn.kind # pureIn.token_type => ~returned

\* the refresh token is validly signed, has not expired, is of type
\* "refresh", and belongs to a user who exists and is active
ValidRefresh(token) ==
    /\ token.signed
    /\ ~token.expired
    /\ token.type = "refresh"
    /\ get_user_by_id(StrInt(token.sub)) # NoUser
    /\ get_user_by_id(StrInt(token.sub)).is_active

\* C22: POST /auth/refresh with a valid, unexpired refresh token of an
\* existing active user answers 200 with a token response for that user;
\* with any other token it answers 401.
C22_RefreshGivesTokens ==
    \A s \in Sessions :
        (req[s].handler = "refresh_token" /\ req[s].stage = "respond") =>
            IF ValidRefresh(req[s].token)
            THEN /\ req[s].status = 200
                 /\ req[s].user.id = StrInt(req[s].token.sub)
            ELSE req[s].status = 401

\* the user a login or a bearer token names, NoUser when there is none
Named(r) ==
    IF r.handler = "login" THEN get_user_by_email(r.arg)
    ELSE IF r.token = NoToken THEN NoUser
    ELSE get_user_by_id(StrInt(r.token.sub))

\* the request carries the user's password, or the access token issued to
\* the user and not yet expired
GoodCredentials(r, u) ==
    IF r.handler = "login" THEN verify_password(r.password, u.hashed_password)
    ELSE r.token = FreshAccess(u.id)

\* an admin has switched the account on: it is active and did not start so
Reactivated(u) == u.is_active /\ ~SeedUsers[u.id].is_active

\* C23: while a user is deactivated, every login and every request
\* authenticated by a token of that user is answered 401, also with an
\* access token issued earlier and not yet expired; once an admin has
\* activated the user, such requests are answered 200 again.
C23_DeactivationHolds ==
    \A s \in Sessions :
        (req[s].stage = "respond" /\ req[s].handler \in {"login", "get_current_user_info"}) =>
            LET u == Named(req[s])
            IN /\ (u # NoUser /\ ~u.is_active) => req[s].status = 401
               /\ (u # NoUser /\ Reactivated(u) /\ GoodCredentials(req[s], u)) =>
                     req[s].status = 200 /\ req[s].user.id = u.id

\* the viewer, deactivated by an admin, is refused with an unexpired access
\* token, while the user an admin activated has logged in
C23_Witness ==
    \E s \in Sessions :
        /\ req[s].handler = "get_current_user_info"
        /\ req[s].token = FreshAccess(3)
        /\ req[s].status = 401
        /\ req[s].detail = "User is inactive"
        /\ ~get_user_by_id(3).is_active
        /\ Reactivated(get_user_by_id(4))
        /\ get_user_by_id(4).last_login > 0

\* the login names no user, an inactive user, or gives a wrong password
BadLogin(r) ==
    LET u == get_user_by_email(r.arg)
    IN \/ u = NoUser
       \/ ~u.is_active
       \/ ~verify_password(r.password, u.hashed_password)

\* C30: a login that fails is answered 401 "Invalid email or password"
\* with no tokens, the same whether the email is unknown, the user is
\* inactive or the password is wrong; last_login changes only in the step
\* of a login that authenticates that user, and never in a failing one.
C30_FailedLoginSilent ==
    [][/\ \A s \in Sessions :
             (req'[s].handler = "login" /\ req'[s].stage = "respond" /\ BadLogin(req[s])) =>
                 /\ req'[s].status = 401
                 /\ req'[s].detail = "Invalid email or password"
                 /\ req'[s].user = NoUser
                 /\ users' = users
       /\ \A i \in 1..Len(users) :
             users'[i].last_login # users[i].last_login =>
                 \E s \in Sessions :
                     /\ req[s].handler = "login"
                     /\ req[s].arg = users[i].email
                     /\ ~BadLogin(req[s])
                     /\ req'[s].status = 200
                     /\ req'[s].user.id = users[i].id]_vars

\* a login with a wrong password is refused for a user who had logged in
\* before
C30_Witness ==
    \E s \in Sessions :
        /\ req[s].handler = "login"
        /\ req[s].arg = "viewer@x"
        /\ req[s].password # SeedPassword("viewer@x")
        /\ req[s].status = 401
        /\ get_user_by_email("viewer@x").last_login > 0

\* C24: of the calls of acquire() that returned, no more than max_requests
\* fall in any interval of time_window seconds.
C24_RateRespected ==
    \A i \in 1..Len(acquired) :
        Cardinality({j \in 1..Len(acquired) :
                        /\ acquired[i] <= acquired[j]
                        /\ acquired[j] < acquired[i] + limiter.time_window})
            <= limiter.max_requests

\* C25: _make_request with retries = r makes at most r+1 HTTP attempts and
\* ends either returning the JSON body of a 200 response or raising
\* APIError. A 5xx response, a timeout or a request error is retried with
\* backoff 2^attempt only while attempt < r and raises APIError on the
\* last attempt; a 429 uses up an attempt and ends in "Max retries
\* exceeded" when none is left; any other status raises APIError with the
\* status at once.
C25_RetryBound ==
    LET retryable == {"5xx", "TimeoutException", "RequestError"}
    IN /\ call.sent <= call.retries + 1
       /\ (call.stage = "loop" /\ call.last \in retryable) =>
             /\ call.attempt <= call.retries
             /\ call.slept = 2 ^ (call.attempt - 1)
       /\ call.stage = "done" =>
             /\ call.outcome \in {"returned", "APIError"}
             /\ call.outcome = "returned" => call.last = "2xx"
             /\ call.last \in retryable => call.sent = call.retries + 1
             /\ call.last = "4xx" /\ call.status # 429 =>
                   call.outcome = "APIError" /\ call.status = 404
             /\ call.message = "Max retries exceeded" <=>
                   call.status = 429
             /\ call.status = 429 => call.sent = call.retries + 1

\* hash of the last committed entry, GENESIS for an empty ledger
LastCommittedHash ==
    IF committed = <<>> THEN GENESIS ELSE committed[Len(committed)].hash

\* C26: when a session that flushed entries is rolled back, those entries
\* are in no session's view of the ledger and not among the committed
\* entries; an append by a session with nothing uncommitted of its own, as
\* the next append after a rollback is, takes the hash of the last
\* committed entry as prev_hash; and the committed entries stay linked from
\* GENESIS. Appends are made one after another.
C26_RollbackLeavesNoTrace ==
    [][/\ \A s \in Sessions :
             /\ nDiscarded' > nDiscarded /\ pending[s] # <<>> /\ pending'[s] = <<>> =>
                   \A e \in Range(pending[s]) :
                       /\ ~\E i \in 1..Len(committed') : SameEntry(e, committed'[i])
                       /\ \A t \in Sessions :
                             ~\E i \in 1..Len(VisibleRows(t)') :
                                 SameEntry(e, VisibleRows(t)'[i])
             /\ Len(pending'[s]) = 1 /\ pending[s] = <<>> =>
                   pending'[s][1].prev_hash = LastCommittedHash
       /\ Linked(committed')]_vars

\* after an entry was committed and a later one rolled back, an append
\* links to the committed entry
C26_Witness ==
    /\ nDiscarded >= 1
    /\ committed # <<>>
    /\ \E s \in Sessions :
          /\ pending[s] # <<>>
          /\ pending[s][1].prev_hash = committed[Len(committed)].hash
          /\ pending[s][1].timestamp.t >= 3

\* the positions of the genesis entries of a list of entries
GenesisAt(rows) == {i \in 1..Len(rows) : rows[i].prev_hash = GENESIS}

\* exactly one genesis entry, the one with the lowest id, and no hash that
\* is the sentinel
UniqueGenesis(rows) ==
    /\ rows # <<>> =>
          /\ Cardinality(GenesisAt(rows)) = 1
          /\ \A g \in GenesisAt(rows) :
                \A i \in 1..Len(rows) : rows[g].id <= rows[i].id
    /\ \A i \in 1..Len(rows) : rows[i].hash # GENESIS

\* C27: when appends are made one after another on a ledger that starts
\* empty, a non-empty ledger (the committed entries, and the entries any
\* session sees) has exactly one entry with prev_hash GENESIS, which is the
\* entry with the lowest id, and no entry's hash is the sentinel GENESIS.
C27_UniqueGenesis ==
    /\ UniqueGenesis(committed)
    /\ \A s \in Sessions : UniqueGenesis(VisibleRows(s))

\* three committed entries, appended after the ledger was first non-empty
C27_Witness ==
    /\ Len(committed) >= 3
    /\ committed[1].prev_hash = GENESIS
    /\ committed[3].prev_hash = committed[2].hash

ActiveAdmins == {i \in 1..Len(users) : users[i].role = ADMIN /\ users[i].is_active}

\* C28: the deployment starts with an active admin, and after any register,
\* deactivate_user and activate_user requests, the steps of concurrent
\* requests interleaved, at least one user with role ADMIN is active.
C28_AdminRemains == ActiveAdmins # {}

\* the arguments the same request passes when its actor field is a
SameRequestWith(s, a) == HandlerArgs([req[s] EXCEPT !.actor = a])

\* C29: every entry that a POST to /dashboard/realworld or
\* /dashboard/upload-invoice creates has the actor "User:" followed by the
\* email of the user its token authenticated, and the same request with any
\* other actor field in its form creates an entry with the same actor,
\* action and data.
C29_ActorIsCaller ==
    \A s \in Sessions :
        /\ pc[s] = "append" =>
              callArgs[s].actor = "User:" \o get_user_by_id(StrInt(req[s].token.sub)).email
        /\ \A e \in Range(owned[s]) :
              /\ e.actor = "User:" \o get_user_by_id(StrInt(req[s].token.sub)).email
              /\ \A a \in FormActors :
                    /\ e.actor = SameRequestWith(s, a).actor
                    /\ e.action = SameRequestWith(s, a).action
                    /\ e.data = SameRequestWith(s, a).data

\* the orchestrator posted the form with the admin named as actor, and the
\* committed entry names the orchestrator
C29_Witness ==
    \E s \in Sessions :
        /\ req[s].handler = "realworld_input"
        /\ req[s].actor = "User:admin@x"
        /\ req[s].token = AccessToken(2)
        /\ owned[s] # <<>>
        /\ IsCommitted(owned[s][1])
        /\ owned[s][1].actor = "User:orch@x"

====
